---- MODULE Spec2Model ----
(***************************************************************************)
(* Membership agent of gossip-peer (src/src/agent.rs): the peer table, the *)
(* heartbeat merge (touch), the time-based failure detector (detect), the  *)
(* gossip fan-out (gossip), seed discovery (ping) and the heartbeat tick.  *)
(*                                                                         *)
(* Spec drives ONE agent through its public operations with every input    *)
(* of the bounded input sets; each call leaves its arguments, the table it *)
(* started from and its result in `call`, which the caller then drops      *)
(* (Return).                                                               *)
(***************************************************************************)
EXTENDS Integers, Sequences, FiniteSets, TLC

\* ------------------------------------------------------------------ bounds
MaxTime == 2        \* the clock runs over 0..MaxTime
MaxBeat == 2        \* heartbeats carried by inbound messages are in 0..MaxBeat
WordBits == 5       \* u64 arithmetic is modelled at WordBits bits

\* ------------------------------------------------------- values and types
U64 == 2 ^ WordBits

\* u64 `a - b` in a build without overflow checks
wrapping_sub(a, b) == (a - b + U64) % U64

\* tests::addr
addr(i) == [host |-> i * 16843009, port |-> i]

Self == addr(1)
Beats == 0..MaxBeat

\* struct Info
Info(a, b) == [addr |-> a, beat |-> b]

\* Record::new
Record(a, time, beat) == [info |-> Info(a, beat), time |-> time, down |-> 0]

\* Record::is_down
is_down(record) == record.down > 0

\* enum Event
EventAppend(record) == [kind |-> "Append", rec |-> record]
EventRemove(record) == [kind |-> "Remove", rec |-> record]

\* enum Message
Ping(info) == [kind |-> "Ping", list |-> <<info>>]
List(list) == [kind |-> "List", list |-> list]

\* ----------------------------------------------------------------- state
VARIABLES
    this,           \* Agent.this
    seeds,          \* Agent.seeds
    peers,          \* Agent.peers
    ping_cutoff,    \* Agent.ping_cutoff
    fail_cutoff,    \* Agent.fail_cutoff
    now,            \* the caller's clock (get_current_millis)
    status,         \* "running", or "panicked" once an overflow check aborted the process
    call,           \* the call just made: its arguments, the table before it, its result
    cluster,        \* the agents of a cluster, by address: [this, seeds, peers]
    net,            \* the datagrams in flight: [from, to, message]
    done,           \* the agents that have run this round's periodic part
    departed,       \* the last Info a node advertised before it stopped for good
    log             \* the observer's view: the kind of the last event seen, by address

vars == <<this, seeds, peers, ping_cutoff, fail_cutoff, now, status, call,
          cluster, net, done, departed, log>>

clusterVars == <<cluster, net, done, departed>>

\* Agent::new's arguments: the seeds, and the cutoffs as <<ping, fail>> in clock
\* units (one unit is one round of the driving loop)
Seeds == <<addr(2)>>
Cutoffs == {<<1, 1>>, <<0, 0>>}

\* Message::patch: a Ping takes the sender's host, a List only where the host is 0
patch(message, ip) ==
    IF message.kind = "Ping"
    THEN Ping([message.list[1] EXCEPT !.addr.host = ip.host])
    ELSE List([i \in DOMAIN message.list |->
                IF message.list[i].addr.host = 0
                THEN [message.list[i] EXCEPT !.addr.host = ip.host]
                ELSE message.list[i]])

\* ------------------------------------------------------------ sequences
RECURSIVE Pick(_, _, _)
\* the elements of s at the indices in idx that are >= from, in order
\* (Iterator::filter(..).collect())
Pick(s, idx, from) ==
    IF from > Len(s) THEN <<>>
    ELSE (IF from \in idx THEN <<s[from]>> ELSE <<>>) \o Pick(s, idx, from + 1)

\* --------------------------------------------------------------- Agent
\* a lookup that passes over the records that are down
get_mut_alive(table, a) ==
    IF \E i \in DOMAIN table : table[i].info.addr = a /\ ~is_down(table[i])
    THEN CHOOSE i \in DOMAIN table :
            /\ table[i].info.addr = a /\ ~is_down(table[i])
            /\ \A j \in DOMAIN table :
                    table[j].info.addr = a /\ ~is_down(table[j]) => i <= j
    ELSE 0

\* Agent::get_mut: the index of the first record with this address, 0 for None
get_mut(table, a) ==
    IF \E i \in DOMAIN table : table[i].info.addr = a
    THEN CHOOSE i \in DOMAIN table :
            /\ table[i].info.addr = a
            /\ \A j \in DOMAIN table : table[j].info.addr = a => i <= j
    ELSE 0

\* an acceptance test that takes every beat other than the recorded one
touch_accepts_any_change(info, record) == info.beat # record.info.beat

\* an acceptance test that takes the recorded beat again
touch_accepts_equal(info, record) == info.beat >= record.info.beat \/ info.beat = 0

\* Agent::touch's acceptance test
touch_accepts(info, record) == info.beat > record.info.beat \/ info.beat = 0

\* a touch that also announces an accepted update of a tracked address
touch_announces_update(table, info, time) ==
    LET i == get_mut(table, info.addr)
        record == [info |-> info, time |-> time, down |-> 0]
    IN IF i # 0
       THEN IF touch_accepts(info, table[i])
            THEN [peers |-> [table EXCEPT ![i] = record],
                  event |-> <<EventAppend(record)>>]
            ELSE [peers |-> table, event |-> <<>>]
       ELSE [peers |-> Append(table, record),
             event |-> <<EventAppend(record)>>]

\* Agent::touch: the table after it, and the event it returns (<<>> for None)
touch(table, info, time) ==
    LET i == get_mut(table, info.addr) IN
    IF i # 0
    THEN [peers |-> IF touch_accepts(info, table[i])
                    THEN [table EXCEPT ![i] = [info |-> Info(table[i].info.addr, info.beat),
                                               time |-> time,
                                               down |-> 0]]
                    ELSE table,
          event |-> <<>>]
    ELSE LET record == [info |-> info, time |-> time, down |-> 0] IN
         [peers |-> Append(table, record),
          event |-> <<EventAppend(record)>>]

\* Agent::detect, `self.ping_cutoff + self.fail_cutoff`
total_cutoff == (ping_cutoff + fail_cutoff) % U64

\* Agent::detect's two filters: not down, and silent since `time - total_cutoff`
detect_due(record, time) ==
    /\ ~is_down(record)
    /\ record.time <= wrapping_sub(time, total_cutoff)

\* `time - total_cutoff` is evaluated (lazily) for each record that is not down:
\* with time < total_cutoff the u64 subtraction overflows
detect_overflows(table, time) ==
    /\ time < total_cutoff
    /\ \E i \in DOMAIN table : ~is_down(table[i])

\* Agent::detect: the table after it and the events it returns
detect(table, time) ==
    LET due == {i \in DOMAIN table : detect_due(table[i], time)}
        after == [i \in DOMAIN table |->
                    IF i \in due THEN [table[i] EXCEPT !.down = time] ELSE table[i]]
        removes == [i \in DOMAIN table |-> EventRemove(after[i])]
    IN [peers |-> after, events |-> Pick(removes, due, 1)]

RECURSIVE touch_each(_, _, _)
\* the loop of Agent::accept over the carried infos: the table after it, the
\* events pushed, and one step (info, table before, table after, event) per touch
touch_each(table, list, time) ==
    IF list = <<>> THEN [peers |-> table, events |-> <<>>, steps |-> <<>>]
    ELSE LET t == touch(table, Head(list), time)
             rest == touch_each(t.peers, Tail(list), time)
         IN [peers |-> rest.peers,
             events |-> t.event \o rest.events,
             steps |-> <<[info |-> Head(list), before |-> table,
                          after |-> t.peers, event |-> t.event]>> \o rest.steps]

\* an accept that merges the message first and runs the detection after it
accept_merge_first(table, message, time) ==
    LET m == touch_each(table, message.list, time)
        d == detect(m.peers, time)
    IN [peers |-> d.peers, events |-> m.events \o d.events, steps |-> m.steps]

\* Agent::accept: detect first, then touch every carried info in order
accept(table, message, time) ==
    LET d == detect(table, time)
        m == touch_each(d.peers, message.list, time)
    IN [peers |-> m.peers, events |-> d.events \o m.events, steps |-> m.steps]

\* Agent::gossip's two filters: not down, and heard from after `time - ping_cutoff`
gossip_fresh(record, time) ==
    /\ ~is_down(record)
    /\ record.time > wrapping_sub(time, ping_cutoff)

\* `time - self.ping_cutoff` overflows with time < ping_cutoff
gossip_overflows(table, time) ==
    /\ time < ping_cutoff
    /\ \E i \in DOMAIN table : ~is_down(table[i])

\* a payload that keeps the recipient's own info
selected_keeps_recipient(view, a) == [i \in DOMAIN view |-> view[i].info]

\* Agent::gossip, the inner closure: the infos of the view, the recipient's left out
selected(view, a) ==
    LET infos == [i \in DOMAIN view |-> view[i].info]
    IN Pick(infos, {i \in DOMAIN infos : infos[i].addr # a}, 1)

\* Agent::gossip: one (recipient, List) per fresh record
gossip(me, table, time) ==
    LET fresh == {i \in DOMAIN table : gossip_fresh(table[i], time)}
        view == Pick(table, fresh, 1) \o <<me>>
        sends == [i \in DOMAIN table |->
                    [to |-> table[i].info.addr,
                     message |-> List(selected(view, table[i].info.addr))]]
    IN Pick(sends, fresh, 1)

\* a filter turned round: the seeds that are tracked and not down
ping_known(targets, table) ==
    Pick(targets, {s \in DOMAIN targets :
                    \E i \in DOMAIN table :
                        ~is_down(table[i]) /\ table[i].info.addr = targets[s]}, 1)

\* a filter that also passes over the seeds whose record is down
ping_untracked(targets, table) ==
    Pick(targets, {s \in DOMAIN targets :
                    \A i \in DOMAIN table : table[i].info.addr # targets[s]}, 1)

\* Agent::ping: the seeds with no record that is not down
ping(targets, table) ==
    Pick(targets, {s \in DOMAIN targets :
                    \A i \in DOMAIN table :
                        ~is_down(table[i]) => table[i].info.addr # targets[s]}, 1)

\* Agent::tick
tick(me, time) == [me EXCEPT !.info.beat = me.info.beat + 1, !.time = time]

\* Agent::is_ready
is_ready(table) == table # <<>>

\* ------------------------------------------------------------ the driver
NoMessage == List(<<>>)

NoCall == [op |-> "none", time |-> 0, message |-> NoMessage, pre |-> <<>>,
           events |-> <<>>, steps |-> <<>>, sends |-> <<>>, addrs |-> <<>>,
           panic |-> FALSE]

\* the inbound messages that speak of the addresses in `as`: every Ping, and
\* every List of no, one or two entries
MessagesOver(as) ==
    LET infos == {Info(a, b) : a \in as, b \in Beats} IN
    {Ping(i) : i \in infos}
        \cup {List(<<>>)}
        \cup {List(<<i>>) : i \in infos}
        \cup {List(<<i, j>>) : i \in infos, j \in infos}

\* the addresses one run's inbound messages speak of: two peers, or the agent
\* itself and a peer
Universes == {{addr(2), addr(3)}, {Self, addr(2)}}

\* the messages the environment may deliver to an agent tracking `tracked`
MessagesFor(tracked) ==
    UNION {MessagesOver(u) : u \in {v \in Universes : tracked \subseteq v}}

Carried(message) == {message.list[i].addr : i \in DOMAIN message.list}
Tracked(table) == {table[i].info.addr : i \in DOMAIN table}

RECURSIVE Logged(_, _)
\* main's handler, called with each returned event in order: what an observer
\* of the events knows afterwards
Logged(seen, events) ==
    IF events = <<>> THEN seen
    ELSE Logged((Head(events).rec.info.addr :> Head(events).kind) @@ seen, Tail(events))

\* Agent::new, with the record main builds for the node itself
Init ==
    /\ this = Record(Self, 0, 0)
    /\ seeds = Seeds
    /\ peers = <<>>
    /\ \E c \in Cutoffs : ping_cutoff = c[1] /\ fail_cutoff = c[2]
    /\ now = 0
    /\ status = "running"
    /\ call = NoCall
    /\ cluster = <<>>
    /\ net = {}
    /\ done = {}
    /\ log = <<>>
    /\ departed = Info(Self, 0)

Idle == status = "running" /\ call.op = "none"

\* a round of the driving loop starts: it reads the clock, one unit on, and ticks
Tick ==
    /\ Idle
    /\ now < MaxTime
    /\ now' = now + 1
    /\ this' = tick(this, now + 1)
    /\ call' = [NoCall EXCEPT !.op = "tick", !.time = now + 1, !.pre = peers]
    /\ UNCHANGED <<seeds, peers, ping_cutoff, fail_cutoff, status, clusterVars, log>>

CallPing ==
    /\ Idle
    /\ call' = [NoCall EXCEPT !.op = "ping", !.time = now, !.pre = peers,
                              !.addrs = ping(seeds, peers)]
    /\ UNCHANGED <<this, seeds, peers, ping_cutoff, fail_cutoff, now, status, clusterVars, log>>

\* an overflowing subtraction panics in a build with overflow checks
Panic(op, message) ==
    /\ status' = "panicked"
    /\ call' = [NoCall EXCEPT !.op = op, !.time = now, !.message = message,
                              !.pre = peers, !.panic = TRUE]
    /\ UNCHANGED <<this, seeds, peers, ping_cutoff, fail_cutoff, now, clusterVars, log>>

\* detect(now); an observer, when there is one, sees the returned events
DetectCall(observed) ==
    /\ Idle
    /\ \/ /\ detect_overflows(peers, now)
          /\ Panic("detect", NoMessage)
       \/ /\ LET d == detect(peers, now) IN
             /\ peers' = d.peers
             /\ call' = [NoCall EXCEPT !.op = "detect", !.time = now, !.pre = peers,
                                       !.events = d.events]
             /\ log' = IF observed THEN Logged(log, d.events) ELSE log
          /\ UNCHANGED <<this, seeds, ping_cutoff, fail_cutoff, now, status, clusterVars>>

Detect == DetectCall(FALSE)

\* accept(message, now), likewise
AcceptCall(observed) ==
    /\ Idle
    /\ \E message \in MessagesFor(Tracked(peers)) :
        /\ \/ /\ detect_overflows(peers, now)
              /\ Panic("accept", message)
           \/ /\ LET a == accept(peers, message, now) IN
                 /\ peers' = a.peers
                 /\ call' = [NoCall EXCEPT !.op = "accept", !.time = now,
                                           !.message = message, !.pre = peers,
                                           !.events = a.events, !.steps = a.steps]
                 /\ log' = IF observed THEN Logged(log, a.events) ELSE log
              /\ UNCHANGED <<this, seeds, ping_cutoff, fail_cutoff, now, status, clusterVars>>

Accept == AcceptCall(FALSE)

Gossip ==
    /\ Idle
    /\ \/ /\ gossip_overflows(peers, now)
          /\ Panic("gossip", NoMessage)
       \/ /\ call' = [NoCall EXCEPT !.op = "gossip", !.time = now, !.pre = peers,
                                    !.sends = gossip(this, peers, now)]
          /\ UNCHANGED <<this, seeds, peers, ping_cutoff, fail_cutoff, now, status, clusterVars, log>>

\* the caller has consumed the result; the core retains nothing of it
Return ==
    /\ status = "running"
    /\ call.op # "none"
    /\ call' = NoCall
    /\ UNCHANGED <<this, seeds, peers, ping_cutoff, fail_cutoff, now, status, clusterVars, log>>

Next == Tick \/ CallPing \/ Detect \/ Accept \/ Gossip \/ Return

Spec == Init /\ [][Next]_vars

\* the same agent with an observer attached to the events of detect and accept
LogDetect == DetectCall(TRUE)

LogAccept == AcceptCall(TRUE)

LogNext == Tick \/ LogDetect \/ LogAccept \/ Return

LogSpec == Init /\ [][LogNext]_vars

\* ------------------------------------------------------------ a cluster
(***************************************************************************)
(* ClusterSpec runs two agents, each through the rounds of the driving     *)
(* loop of main.rs: datagrams are received (patch, accept) whenever they   *)
(* arrive, and once a round the agent ticks, announces itself to the seeds *)
(* that ping returns, gossips and runs detect. A third node has announced  *)
(* itself to both agents and then stopped for good: its two Pings are in   *)
(* flight at the start, and datagrams addressed to it go nowhere. A        *)
(* datagram arrives within the round it was sent in.                       *)
(***************************************************************************)
MaxRounds == 7      \* the cluster's clock runs over StartTime .. StartTime + MaxRounds

Running == {addr(1), addr(2)}
Stopped == addr(3)

\* the cluster's clock starts beyond both cutoffs, as a wall clock does
StartTime == 3

\* the agent at address n, as main constructs it
NewAgent(n, known) ==
    [this |-> Record(n, StartTime, 0), seeds |-> known, peers |-> <<>>]

ClusterInit ==
    /\ this = Record(Self, 0, 0)
    /\ seeds = Seeds
    /\ peers = <<>>
    /\ status = "running"
    /\ call = NoCall
    /\ ping_cutoff = 2
    /\ fail_cutoff = 1
    /\ now = StartTime
    /\ cluster = [n \in Running |-> NewAgent(n, IF n = addr(1) THEN <<addr(2)>> ELSE <<>>)]
    /\ \E beat \in Beats :
        /\ departed = Info(Stopped, beat)
        /\ net = {[from |-> Stopped, to |-> n, message |-> Ping(Info(Stopped, beat))] :
                    n \in Running}
    /\ done = {}
    /\ log = <<>>

\* the datagrams of one agent's sends that reach the network: those addressed
\* to the stopped node go nowhere
Datagrams(from, sends) ==
    {[from |-> from, to |-> sends[i].to, message |-> sends[i].message] :
        i \in {j \in DOMAIN sends : sends[j].to \in Running}}

\* main's receive branch: patch the datagram with its sender, then accept it
Deliver ==
    \E d \in net :
        /\ ~detect_overflows(cluster[d.to].peers, now)
        /\ cluster' = [cluster EXCEPT ![d.to].peers =
                          accept(@, patch(d.message, d.from), now).peers]
        /\ net' = net \ {d}
        /\ UNCHANGED <<this, seeds, peers, call, status, ping_cutoff, fail_cutoff,
                       now, done, departed, log>>

\* the stopped node's announcement may be lost on its way to an agent; the
\* agents that keep running keep hearing each other
Lose ==
    \E d \in net :
        /\ d.from = Stopped
        /\ net' = net \ {d}
        /\ UNCHANGED <<this, seeds, peers, call, status, ping_cutoff, fail_cutoff,
                       now, cluster, done, departed, log>>

\* the periodic part of one agent's round: tick, announce to the seeds that
\* ping returns, gossip, detect
Round ==
    \E n \in Running \ done :
        LET agent == cluster[n]
            me == tick(agent.this, now)
            targets == ping(agent.seeds, agent.peers)
            announces == [i \in DOMAIN targets |->
                            [to |-> targets[i], message |-> Ping(me.info)]]
            lists == gossip(me, agent.peers, now)
        IN /\ ~gossip_overflows(agent.peers, now)
           /\ ~detect_overflows(agent.peers, now)
           /\ cluster' = [cluster EXCEPT ![n] =
                            [this |-> me, seeds |-> agent.seeds,
                             peers |-> detect(agent.peers, now).peers]]
           /\ net' = net \cup Datagrams(n, announces) \cup Datagrams(n, lists)
           /\ done' = done \cup {n}
           /\ UNCHANGED <<this, seeds, peers, call, status, ping_cutoff, fail_cutoff,
                          now, departed, log>>

\* the next round starts once every agent has run and nothing is in flight
NextRound ==
    /\ done = Running
    /\ net = {}
    /\ now < StartTime + MaxRounds
    /\ now' = now + 1
    /\ done' = {}
    /\ UNCHANGED <<this, seeds, peers, call, status, ping_cutoff, fail_cutoff,
                   cluster, net, departed, log>>

ClusterNext == Deliver \/ Lose \/ Round \/ NextRound

ClusterSpec == ClusterInit /\ [][ClusterNext]_vars

\* the record an agent of the cluster holds for an address, as a set (empty
\* when it tracks none)
Held(n, a) == {cluster[n].peers[i] : i \in {j \in DOMAIN cluster[n].peers :
                                              cluster[n].peers[j].info.addr = a}}

\* the last round is over: every agent has run detect and nothing is in flight
Settled == now = StartTime + MaxRounds /\ done = Running /\ net = {}

\* ----------------------------------------------------------------- C1
\* C1: once a node has stopped for good, every running agent that tracks it
\* comes to hold its record as down and keeps it down, whatever beat the node
\* advertised last: when the rounds are over, no agent holds a record of the
\* stopped node that is not down.
C1_StoppedNodeDetected ==
    Settled => \A n \in Running : \A record \in Held(n, Stopped) : is_down(record)

\* the same for a node whose last advertised beat is not 0 (this much holds)
C1_StoppedNodeDetectedNonZero ==
    Settled /\ departed.beat # 0 =>
        \A n \in Running : \A record \in Held(n, Stopped) : is_down(record)

\* both agents have tracked the stopped node
C1_BothTracked ==
    Settled /\ departed.beat # 0 /\ \A n \in Running : Held(n, Stopped) # {}

\* ------------------------------------------------- reading a call's record
Returned(op) == call.op = op /\ ~call.panic

\* the record a table holds for an address (the first, as get_mut finds it)
RecordFor(table, a) == table[get_mut(table, a)]

\* the claims speak of time as integers: silent for the whole of both cutoffs
SilentSince(record, time) == record.time + ping_cutoff + fail_cutoff <= time

\* heard from within the ping cutoff
HeardWithin(record, time) == record.time + ping_cutoff > time

RemovedAddrs(events) == {events[i].rec.info.addr : i \in {j \in DOMAIN events : events[j].kind = "Remove"}}

\* ----------------------------------------------------------------- C2
\* C2: the agent's own address is never stored in its peer table, whatever
\* Ping or List accept is given.
C2_OwnAddressNeverStored ==
    \A i \in DOMAIN peers : peers[i].info.addr # this.info.addr

\* ----------------------------------------------------------------- C3
\* C3: the peer table holds at most one record for each address, also after a
\* List that carries one address several times.
C3_OneRecordPerAddress ==
    \A i, j \in DOMAIN peers : peers[i].info.addr = peers[j].info.addr => i = j

\* accept has merged a List carrying one address twice with different beats,
\* the address having been down in the table before
C3_Witness ==
    /\ Returned("accept")
    /\ call.message.kind = "List"
    /\ Len(call.message.list) = 2
    /\ call.message.list[1].addr = call.message.list[2].addr
    /\ call.message.list[1].beat # call.message.list[2].beat
    /\ \E i \in DOMAIN call.pre :
        /\ call.pre[i].info.addr = call.message.list[1].addr
        /\ is_down(call.pre[i])

\* ----------------------------------------------------------------- C4
\* the beats a table records, in table order, with their addresses
InfosOf(table) == [i \in DOMAIN table |-> table[i].info]

\* one touch: every tracked beat stays or grows, or the touch carried beat 0
\* for that address and the beat is 0 afterwards
TouchMonotone(step) ==
    \A i \in DOMAIN step.before :
        LET before == step.before[i].info
            after == step.after[i].info
        IN /\ after.addr = before.addr
           /\ \/ after.beat >= before.beat
              \/ /\ step.info.addr = before.addr
                 /\ step.info.beat = 0
                 /\ after.beat = 0

\* C4: across every touch of every accept the recorded beat of a tracked peer
\* never decreases, except that a touch carrying beat 0 for it sets it to 0;
\* tick, ping, detect (alone or as the first step of accept) and gossip leave
\* every recorded beat as it was.
C4_BeatMonotone ==
    /\ Returned("accept") =>
        /\ \A k \in DOMAIN call.steps : TouchMonotone(call.steps[k])
        /\ InfosOf(call.pre) =
              InfosOf(IF call.steps = <<>> THEN peers ELSE call.steps[1].before)
        /\ \A i \in DOMAIN call.pre :
              \/ peers[i].info.beat >= call.pre[i].info.beat
              \/ \E k \in DOMAIN call.message.list :
                    call.message.list[k] = Info(call.pre[i].info.addr, 0)
    /\ call.op \in {"tick", "ping", "detect", "gossip"} =>
        InfosOf(peers) = InfosOf(call.pre)

\* a touch carrying beat 0 has reset a recorded beat that was above 0, and a
\* touch of the same call carrying a smaller non-zero beat was ignored
C4_Witness ==
    /\ Returned("accept")
    /\ \E k \in DOMAIN call.steps :
        LET step == call.steps[k] IN
        \E i \in DOMAIN step.before :
            /\ step.before[i].info.addr = step.info.addr
            /\ step.before[i].info.beat > 0
            /\ step.info.beat = 0
            /\ step.after[i].info.beat = 0
    /\ \E k \in DOMAIN call.steps :
        LET step == call.steps[k] IN
        \E i \in DOMAIN step.before :
            /\ step.before[i].info.addr = step.info.addr
            /\ step.info.beat > 0
            /\ step.info.beat < step.before[i].info.beat
            /\ step.after[i].info.beat = step.before[i].info.beat

\* ----------------------------------------------------------------- C5
\* a touch whose identity the table already records (address and beat)
Repeated(step) ==
    \E i \in DOMAIN step.before : step.before[i].info = step.info

\* C5 as claimed: once the table records an identity, touching with the same
\* identity again changes no field of the record and returns no event, for
\* every beat.
C5_TouchIdempotent ==
    Returned("accept") =>
        \A k \in DOMAIN call.steps :
            Repeated(call.steps[k]) =>
                /\ call.steps[k].after = call.steps[k].before
                /\ call.steps[k].event = <<>>

\* C5 amended: the same, for every identity whose beat is not 0.
C5_TouchIdempotentNonZero ==
    Returned("accept") =>
        \A k \in DOMAIN call.steps :
            Repeated(call.steps[k]) /\ call.steps[k].info.beat # 0 =>
                /\ call.steps[k].after = call.steps[k].before
                /\ call.steps[k].event = <<>>

\* a non-zero identity recorded at an earlier time has been touched again
C5_Witness ==
    /\ Returned("accept")
    /\ \E k \in DOMAIN call.steps :
        LET step == call.steps[k] IN
        /\ step.info.beat # 0
        /\ \E i \in DOMAIN step.before :
            /\ step.before[i].info = step.info
            /\ step.before[i].time < call.time

\* ----------------------------------------------------------------- C6
\* every entry of the message names a tracked address and carries a
\* non-zero beat no greater than the recorded one
StaleList(message, table) ==
    /\ message.kind = "List"
    /\ \A k \in DOMAIN message.list :
        /\ message.list[k].addr \in Tracked(table)
        /\ message.list[k].beat # 0
        /\ message.list[k].beat <= RecordFor(table, message.list[k].addr).info.beat

\* C6 as claimed: accept of a stale List returns no event and leaves the
\* whole table as it was.
C6_StaleListNoOp ==
    Returned("accept") /\ StaleList(call.message, call.pre) =>
        /\ call.events = <<>>
        /\ peers = call.pre

\* C6 amended: accept of a stale List returns no Append, its touches change
\* nothing, and beat and lastContactTime of every record stay; the one effect
\* is that of the detection step: every event is a Remove for a record that
\* was not down and whose down timestamp is now `now`, and no other record's
\* down timestamp changes.
C6_StaleListOnlyDetects ==
    Returned("accept") /\ StaleList(call.message, call.pre) =>
        /\ \A k \in DOMAIN call.events :
              /\ call.events[k].kind = "Remove"
              /\ \E i \in DOMAIN call.pre :
                    /\ ~is_down(call.pre[i])
                    /\ peers[i].down = call.time
                    /\ call.events[k] = EventRemove(peers[i])
        /\ \A k \in DOMAIN call.steps :
              /\ call.steps[k].after = call.steps[k].before
              /\ call.steps[k].event = <<>>
        /\ DOMAIN peers = DOMAIN call.pre
        /\ \A i \in DOMAIN peers :
              /\ peers[i].info = call.pre[i].info
              /\ peers[i].time = call.pre[i].time
              /\ \/ peers[i].down = call.pre[i].down
                 \/ /\ ~is_down(call.pre[i])
                    /\ peers[i].down = call.time
                    /\ \E k \in DOMAIN call.events : call.events[k] = EventRemove(peers[i])

\* a List with a strictly stale and an equal beat has been merged at a time
\* when its peer had timed out
C6_Witness ==
    /\ Returned("accept")
    /\ StaleList(call.message, call.pre)
    /\ Len(call.message.list) = 2
    /\ call.message.list[1].beat < call.message.list[2].beat
    /\ fail_cutoff > 0
    /\ call.time >= ping_cutoff + fail_cutoff
    /\ call.events # <<>>

\* ----------------------------------------------------------------- C7
\* C7: detect(now) marks down every record that is not down and has
\* lastContactTime <= now - (pingCutoff + failCutoff), with down = now and
\* exactly one Remove for it, after which the record is down; a record that is
\* down gets no Remove and keeps its down timestamp; detect never makes a
\* down record alive.
C7_DetectExactlyOnce ==
    Returned("detect") =>
        /\ DOMAIN peers = DOMAIN call.pre
        /\ \A i \in DOMAIN call.pre :
            /\ (~is_down(call.pre[i]) /\ SilentSince(call.pre[i], call.time)) =>
                  /\ peers[i].down = call.time
                  /\ is_down(peers[i])
                  /\ Cardinality({k \in DOMAIN call.events :
                                    call.events[k] = EventRemove(peers[i])}) = 1
            /\ is_down(call.pre[i]) =>
                  /\ peers[i] = call.pre[i]
                  /\ call.pre[i].info.addr \notin RemovedAddrs(call.events)

\* ----------------------------------------------------------------- C8
\* C8: detect(now) and accept(_, now) never mark down, and never return a
\* Remove for, a peer with lastContactTime + pingCutoff + failCutoff > now.
C8_NoPrematureRemove ==
    Returned("detect") \/ Returned("accept") =>
        /\ \A k \in DOMAIN call.events :
              call.events[k].kind = "Remove" =>
                  \E i \in DOMAIN call.pre :
                      /\ call.pre[i].info.addr = call.events[k].rec.info.addr
                      /\ SilentSince(call.pre[i], call.time)
        /\ \A i \in DOMAIN call.pre :
              ~is_down(call.pre[i]) /\ is_down(peers[i]) =>
                  SilentSince(call.pre[i], call.time)

\* ----------------------------------------------------------------- C9
\* C9: no List that gossip(now) returns for a recipient R holds an Info with
\* R's address, and none of its entries (the agent's own Info apart, which
\* every List carries) is the Info of a record that is down or was last heard
\* from at or before now - pingCutoff.
C9_GossipExclusion ==
    Returned("gossip") =>
        \A m \in DOMAIN call.sends :
            LET to == call.sends[m].to
                list == call.sends[m].message.list
            IN \A k \in DOMAIN list :
                /\ list[k].addr # to
                /\ list[k] # this.info =>
                    \A i \in DOMAIN peers :
                        peers[i].info = list[k] =>
                            /\ ~is_down(peers[i])
                            /\ HeardWithin(peers[i], call.time)

\* gossip has sent to a fresh peer while the table held a peer that was not
\* down but silent for the ping cutoff
C9_Witness ==
    /\ Returned("gossip")
    /\ call.sends # <<>>
    /\ \E i \in DOMAIN peers :
        /\ ~is_down(peers[i])
        /\ ~HeardWithin(peers[i], call.time)
        /\ peers[i].info.addr # this.info.addr

\* ---------------------------------------------------------------- C10
FreshPeers(table, time) ==
    {i \in DOMAIN table : ~is_down(table[i]) /\ HeardWithin(table[i], time)}

\* C10: gossip(now) returns exactly one message per record that is not down
\* and has lastContactTime + pingCutoff > now, addressed to it, and each List
\* holds the agent's own Info and the Info of every other such record.
C10_GossipFanOut ==
    Returned("gossip") =>
        LET fresh == FreshPeers(peers, call.time) IN
        /\ Len(call.sends) = Cardinality(fresh)
        /\ \A i \in fresh :
            \E m \in DOMAIN call.sends :
                LET list == call.sends[m].message.list IN
                /\ call.sends[m].to = peers[i].info.addr
                /\ \E k \in DOMAIN list : list[k] = this.info
                /\ \A j \in fresh \ {i} : \E k \in DOMAIN list : list[k] = peers[j].info

\* ---------------------------------------------------------------- C11
\* the addresses a table holds a record for that is not down
Alive(table) == {table[i].info.addr : i \in {j \in DOMAIN table : ~is_down(table[j])}}

SeqRange(s) == {s[i] : i \in DOMAIN s}

\* C11: ping() returns exactly the seeds the table holds no record for that is
\* not down, each once and in seed order: a seed never heard from or marked
\* down is returned, a seed with a record that is not down is not.
C11_PingReturnsUnknownSeeds ==
    Returned("ping") =>
        /\ SeqRange(call.addrs) = SeqRange(seeds) \ Alive(peers)
        /\ Len(call.addrs) = Cardinality(SeqRange(call.addrs))
        /\ peers = call.pre

\* ping has returned a seed that the table holds as down, detect having marked
\* it after accept had inserted it
C11_Witness ==
    /\ Returned("ping")
    /\ call.addrs # <<>>
    /\ \E i \in DOMAIN peers :
        /\ peers[i].info.addr = call.addrs[1]
        /\ is_down(peers[i])

\* ping has returned nothing: the seed is tracked and not down
C11_SeedKnown ==
    /\ Returned("ping")
    /\ call.addrs = <<>>
    /\ SeqRange(seeds) \subseteq Alive(peers)

\* ---------------------------------------------------------------- C12
\* the events of a list that are Appends, in order
Appends(events) == Pick(events, {k \in DOMAIN events : events[k].kind = "Append"}, 1)

\* the beats a message carries for an address
CarriedBeats(message, a) ==
    {message.list[k].beat : k \in {j \in DOMAIN message.list : message.list[j].addr = a}}

\* the records of a table with this address, by index
IndicesOf(table, a) == {i \in DOMAIN table : table[i].info.addr = a}

\* one touch of an address the table does not hold appends one record with
\* the carried Info, time = now and down = 0 and returns Append with that
\* record; a touch of a tracked address returns nothing
TouchInserts(step, time) ==
    IF step.info.addr \in Tracked(step.before)
    THEN /\ step.event = <<>>
         /\ Len(step.after) = Len(step.before)
    ELSE LET record == [info |-> step.info, time |-> time, down |-> 0] IN
         /\ step.after = Append(step.before, record)
         /\ step.event = <<EventAppend(record)>>

\* the events the touches of one accept returned, in the order of the touches
StepEvents(steps) ==
    Pick([k \in DOMAIN steps |->
            IF steps[k].event = <<>> THEN <<>> ELSE steps[k].event[1]],
         {k \in DOMAIN steps : steps[k].event # <<>>}, 1)

\* C12: accept(message, now) carrying an Info whose address the table does not
\* hold adds exactly one record for it, with the carried beat, lastContactTime
\* = now and down = 0, and returns exactly one Append, holding the record as
\* inserted; no Append is returned for an address that was tracked before.
C12_FirstContactAppends ==
    Returned("accept") =>
        /\ \A k \in DOMAIN call.steps : TouchInserts(call.steps[k], call.time)
        /\ Appends(call.events) = StepEvents(call.steps)
        /\ \A a \in Carried(call.message) \ Tracked(call.pre) :
            /\ Cardinality(IndicesOf(peers, a)) = 1
            /\ \A i \in IndicesOf(peers, a) :
                /\ peers[i].time = call.time
                /\ peers[i].down = 0
                /\ peers[i].info.beat \in CarriedBeats(call.message, a)
                /\ Cardinality({k \in DOMAIN call.events :
                        /\ call.events[k].kind = "Append"
                        /\ call.events[k].rec.info.addr = a}) = 1
                /\ Cardinality(CarriedBeats(call.message, a)) = 1 =>
                        \E k \in DOMAIN call.events :
                            call.events[k] = EventAppend(peers[i])
        /\ \A k \in DOMAIN call.events :
            call.events[k].kind = "Append" =>
                call.events[k].rec.info.addr \notin Tracked(call.pre)
        /\ Len(peers) = Len(call.pre)
                + Cardinality(Carried(call.message) \ Tracked(call.pre))

\* a List has introduced one new address next to a tracked one that it
\* revived from down
C12_Witness ==
    /\ Returned("accept")
    /\ call.message.kind = "List"
    /\ Len(call.message.list) = 2
    /\ call.message.list[1].addr \notin Tracked(call.pre)
    /\ call.message.list[1].beat > 0
    /\ \E i \in DOMAIN call.pre :
        /\ call.pre[i].info.addr = call.message.list[2].addr
        /\ is_down(call.pre[i])
        /\ ~is_down(peers[i])
    /\ Len(Appends(call.events)) = 1

\* ---------------------------------------------------------------- C19
\* C19: accept(message, now) applies detect(now) to the table as it was before
\* the message and then touch to each carried Info in message order; the list
\* it returns holds the Remove events of that detection first and the Append
\* events of the touches after them, so no Append precedes a Remove.
C19_DetectionPrecedesMerge ==
    Returned("accept") =>
        LET d == detect(call.pre, call.time)
            n == Len(call.steps)
        IN /\ n = Len(call.message.list)
           /\ \A k \in 1..n : call.steps[k].info = call.message.list[k]
           /\ (IF n = 0 THEN peers ELSE call.steps[1].before) = d.peers
           /\ \A k \in 1..(n - 1) : call.steps[k + 1].before = call.steps[k].after
           /\ n > 0 => peers = call.steps[n].after
           /\ call.events = d.events \o StepEvents(call.steps)
           /\ \A i, j \in DOMAIN call.events :
                (call.events[i].kind = "Append" /\ call.events[j].kind = "Remove") => j < i

\* accept has timed a peer out, revived it from the message in the same call
\* and inserted a new peer: the list returned is a Remove followed by an Append
C19_Witness ==
    /\ Returned("accept")
    /\ Len(call.events) = 2
    /\ call.events[1].kind = "Remove"
    /\ call.events[2].kind = "Append"
    /\ \E i \in DOMAIN call.pre :
        /\ call.pre[i].info.addr = call.events[1].rec.info.addr
        /\ ~is_down(call.pre[i])
        /\ ~is_down(peers[i])
        /\ peers[i].time = call.time
    /\ call.time >= ping_cutoff + fail_cutoff
    /\ fail_cutoff > 0

\* ---------------------------------------------------------------- C20
LastEvent(kind) == {a \in DOMAIN log : log[a] = kind}

Down(table) == {table[i].info.addr : i \in {j \in DOMAIN table : is_down(table[j])}}

\* C20: after any sequence of accept and detect calls the addresses whose most
\* recent event is Append are those of the records that are not down, and the
\* addresses whose most recent event is Remove are those of the records that
\* are down.
C20_EventLogFaithful ==
    /\ LastEvent("Append") = Alive(peers)
    /\ LastEvent("Remove") = Down(peers)

\* ---------------------------------------------------------------- C13
LossyRounds == 2    \* any datagram may be lost in the first LossyRounds rounds

\* the transport is unreliable at first: a datagram between the running agents
\* may be lost too; from then on every datagram is delivered
LoseEarly ==
    \E d \in net :
        /\ now < StartTime + LossyRounds
        /\ d.from \in Running
        /\ net' = net \ {d}
        /\ UNCHANGED <<this, seeds, peers, call, status, ping_cutoff, fail_cutoff,
                       now, cluster, done, departed, log>>

LossyNext == ClusterNext \/ LoseEarly

\* a datagram leaves the network: recv_from returns it, or it is lost
Received == \E d \in net : net' = net \ {d}

\* an agent's loop reaches the periodic part of its round
RoundRan == \E n \in Running \ done : done' = done \cup {n}

\* the loops of the running agents never stop: a datagram in flight is
\* received (or lost), every agent runs its round, and the clock moves on
ClusterLive ==
    /\ ClusterInit /\ [][LossyNext]_vars
    /\ WF_net(Received) /\ WF_done(RoundRan) /\ WF_vars(NextRound)

\* agent n holds a record for address a that is not down
Knows(n, a) == \E record \in Held(n, a) : ~is_down(record)

\* the agent with the seed and its seed hold each other as not down, and ping
\* returns no seed to announce to any more
Discovered ==
    /\ Knows(addr(1), addr(2))
    /\ Knows(addr(2), addr(1))
    /\ ping(cluster[addr(1)].seeds, cluster[addr(1)].peers) = <<>>

\* C13: with A listing B as a seed, A announcing itself to every address ping
\* returns, both ticking and gossiping every round and their datagrams
\* delivered, A comes to hold B and B comes to hold A as not down, and from
\* then on A's ping returns B no more.
C13_DiscoveryConverges == <>[]Discovered

\* the rounds are over, the two agents hold each other, and each has heard
\* the other in the last round
C13_Witness ==
    /\ Settled
    /\ Discovered
    /\ \A record \in Held(addr(1), addr(2)) : record.time = now /\ record.info.beat > 1
    /\ \A record \in Held(addr(2), addr(1)) : record.time = now /\ record.info.beat > 1

\* before the first datagram arrives neither agent holds the other
C13_NotYet ==
    /\ ~Knows(addr(1), addr(2))
    /\ ~Knows(addr(2), addr(1))
    /\ ping(cluster[addr(1)].seeds, cluster[addr(1)].peers) = <<addr(2)>>
    /\ now > StartTime

\* ------------------------------------------------------------ the codec
(***************************************************************************)
(* Message::bytes and Message::parse over byte sequences (big-endian, as   *)
(* BufMut::put_* and Buf::get_* read and write them). Field values are     *)
(* below 2^31, so the upper four bytes of a beat are 0.                    *)
(***************************************************************************)
Capacity == 128     \* BytesMut::with_capacity(128), assert!(vec.len() < 128)
InfoBytes == 14     \* u32 host, u16 port, u64 beat

\* BufMut::put_u16 writing the low byte first
put_u16_le(v) == <<v % 256, v \div 256>>

\* BufMut::put_u16
put_u16(v) == <<v \div 256, v % 256>>

\* BufMut::put_u32
put_u32(v) == put_u16(v \div 65536) \o put_u16(v % 65536)

\* BufMut::put_u64
put_u64(v) == <<0, 0, 0, 0>> \o put_u32(v)

\* Buf::get_u16, get_u32, get_u64 at the front of a buffer that is long enough
get_u16(buf) == buf[1] * 256 + buf[2]
get_u32(buf) == get_u16(buf) * 65536 + get_u16(SubSeq(buf, 3, 4))
get_u64(buf) == get_u32(SubSeq(buf, 5, 8))

\* the buffer without its first n bytes (Buf::advance)
advance(buf, n) == SubSeq(buf, n + 1, Len(buf))

\* the three puts of one Info
put_info(info) == put_u32(info.addr.host) \o put_u16(info.addr.port) \o put_u64(info.beat)

RECURSIVE put_infos(_)
put_infos(list) ==
    IF list = <<>> THEN <<>> ELSE put_info(Head(list)) \o put_infos(Tail(list))

\* Message::bytes, the buffer it builds (MessageKind::Join = 0, List = 1)
bytes(message) ==
    IF message.kind = "Ping"
    THEN <<0>> \o put_info(message.list[1])
    ELSE <<1>> \o put_u32(Len(message.list)) \o put_infos(message.list)

\* Message::bytes, its closing `assert!(vec.len() < 128)` fails
bytes_asserts(message) == ~(Len(bytes(message)) < Capacity)

\* the three gets of one Info
get_info(buf) ==
    Info([host |-> get_u32(buf), port |-> get_u16(advance(buf, 4))],
         get_u64(advance(buf, 6)))

RECURSIVE get_infos(_, _)
\* the loop of Message::parse over `count` records: the infos read, or a panic
\* where a get finds fewer bytes than it reads
get_infos(buf, count) ==
    IF count = 0 THEN [result |-> "Some", list |-> <<>>]
    ELSE IF Len(buf) < InfoBytes THEN [result |-> "panic", list |-> <<>>]
    ELSE LET rest == get_infos(advance(buf, InfoBytes), count - 1) IN
         [result |-> rest.result,
          list |-> IF rest.result = "Some" THEN <<get_info(buf)>> \o rest.list ELSE <<>>]

\* Message::parse: Some(message), None, or a panic inside a get
parse(buf) ==
    IF Len(buf) < 1 THEN [result |-> "panic", message |-> NoMessage]
    ELSE IF buf[1] = 0
    THEN IF Len(buf) < 1 + InfoBytes
         THEN [result |-> "panic", message |-> NoMessage]
         ELSE [result |-> "Some", message |-> Ping(get_info(advance(buf, 1)))]
    ELSE IF buf[1] = 1
    THEN IF Len(buf) < 5
         THEN [result |-> "panic", message |-> NoMessage]
         ELSE LET infos == get_infos(advance(buf, 5), get_u32(advance(buf, 1))) IN
              [result |-> infos.result,
               message |-> IF infos.result = "Some" THEN List(infos.list) ELSE NoMessage]
    ELSE [result |-> "None", message |-> NoMessage]

\* ------------------------------------------------- the codec, called
MaxEntries == 9     \* the longest List handed to the codec

\* a List of n entries with every field in its lowest byte
PlainList(n) == List([k \in 1..n |-> Info(addr(k + 1), k)])

\* a List of n entries with the sentinel host and fields of several bytes
WideList(n) == List([k \in 1..n |-> Info([host |-> 0, port |-> 256 * k + 1], 65536 * k + 255)])

\* the messages handed to the codec: Pings over small and large field values,
\* and Lists of every length up to MaxEntries
CodecMessages ==
    {Ping(Info([host |-> h, port |-> p], b)) :
        h \in {0, addr(2).host, 2130706433}, p \in {0, 2, 258, 65535},
        b \in {0, 1, 256, 2147483647}}
        \cup {PlainList(n) : n \in 0..MaxEntries}
        \cup {WideList(n) : n \in 1..MaxEntries}

\* the senders a datagram is observed to come from
Senders == {addr(3), addr(4)}

\* what reaches the receiver of a buffer: the buffer itself, a prefix of it,
\* the buffer under another kind tag, or a List buffer announcing one record
\* more than it holds
Damages(buf) ==
    {[how |-> "intact", n |-> 0]}
        \cup {[how |-> "short", n |-> n] : n \in 0..(Len(buf) - 1)}
        \cup {[how |-> "tag", n |-> t] : t \in {2, 255}}
        \cup {[how |-> "count", n |-> 0] : x \in IF buf[1] = 1 THEN {0} ELSE {}}

Damaged(buf, damage) ==
    CASE damage.how = "intact" -> buf
      [] damage.how = "short" -> SubSeq(buf, 1, damage.n)
      [] damage.how = "tag" -> <<damage.n>> \o Tail(buf)
      [] damage.how = "count" -> <<1>> \o put_u32(get_u32(Tail(buf)) + 1) \o advance(buf, 5)

NoCodecCall == [op |-> "none", message |-> NoMessage, ip |-> addr(0), damage |-> "none",
                buf |-> <<>>, result |-> "none", out |-> NoMessage, sends |-> <<>>]

CodecInit ==
    /\ this = Record(Self, StartTime, 0)
    /\ seeds = Seeds
    /\ peers = <<>>
    /\ status = "running"
    /\ call = NoCall
    /\ ping_cutoff = 2
    /\ fail_cutoff = 1
    /\ now = StartTime
    /\ cluster = <<>>
    /\ net = {}
    /\ done = {}
    /\ departed = FALSE
    /\ log = <<>>

\* message.bytes(): the buffer, or the process aborted by the assertion
Bytes ==
    /\ Idle
    /\ \E message \in CodecMessages :
        /\ call' = [NoCodecCall EXCEPT
                      !.op = "bytes", !.message = message,
                      !.result = IF bytes_asserts(message) THEN "panic" ELSE "Vec",
                      !.buf = IF bytes_asserts(message) THEN <<>> ELSE bytes(message)]
        /\ status' = IF bytes_asserts(message) THEN "panicked" ELSE status
    /\ UNCHANGED <<this, seeds, peers, ping_cutoff, fail_cutoff, now, clusterVars, log>>

\* Message::parse(buf) of what arrived of an encoded message
Parse ==
    /\ Idle
    /\ \E message \in {m \in CodecMessages : ~bytes_asserts(m)} :
       \E damage \in Damages(bytes(message)) :
        LET buf == Damaged(bytes(message), damage)
            parsed == parse(buf)
        IN /\ call' = [NoCodecCall EXCEPT
                         !.op = "parse", !.message = message, !.damage = damage.how,
                         !.buf = buf, !.result = parsed.result, !.out = parsed.message]
           /\ status' = IF parsed.result = "panic" THEN "panicked" ELSE status
    /\ UNCHANGED <<this, seeds, peers, ping_cutoff, fail_cutoff, now, clusterVars, log>>

\* message.patch(ip)
Patch ==
    /\ Idle
    /\ \E message \in CodecMessages, ip \in Senders :
        call' = [NoCodecCall EXCEPT !.op = "patch", !.message = message, !.ip = ip,
                                    !.result = "()", !.out = patch(message, ip)]
    /\ UNCHANGED <<this, seeds, peers, ping_cutoff, fail_cutoff, now, status, clusterVars, log>>

CodecNext == Bytes \/ Parse \/ Patch \/ Return

CodecSpec == CodecInit /\ [][CodecNext]_vars

\* --------------------------------------------- gossip onto the wire
MaxFresh == 9       \* the peers that join the agent

\* the next peer announces itself and is accepted
Join ==
    /\ Idle
    /\ Len(peers) < MaxFresh
    /\ \E beat \in {0, 1} :
        LET message == Ping(Info(addr(Len(peers) + 2), beat))
            a == accept(peers, message, now)
        IN /\ peers' = a.peers
           /\ call' = [NoCodecCall EXCEPT !.op = "accept", !.message = message]
    /\ UNCHANGED <<this, seeds, ping_cutoff, fail_cutoff, now, status, clusterVars, log>>

\* gossip(now), and message.bytes() of every List it returned; the clock stands
\* at StartTime, past ping_cutoff, so the subtraction in gossip does not overflow
GossipBytes ==
    /\ Idle
    /\ LET sends == gossip(this, peers, now)
           asserts == \E i \in DOMAIN sends : bytes_asserts(sends[i].message)
       IN /\ call' = [NoCodecCall EXCEPT
                        !.op = "gossip", !.sends = sends,
                        !.result = IF asserts THEN "panic" ELSE "Vec"]
          /\ status' = IF asserts THEN "panicked" ELSE status
    /\ UNCHANGED <<this, seeds, peers, ping_cutoff, fail_cutoff, now, clusterVars, log>>

WireNext == Join \/ GossipBytes \/ Return

WireSpec == CodecInit /\ [][WireNext]_vars

\* ------------------------------------------------------------------ C14
\* the encoded size the wire format gives a List: 1 + 4 + 14 * entries
WireSize(message) == 1 + 4 + InfoBytes * Len(message.list)

\* C14: every List returned by gossip(now) encodes, in 1 + 4 + 14 * entries
\* bytes, to at most 128 bytes, and encoding it does not fail, whatever the
\* number of fresh peers in the table.
C14_GossipFitsDatagram ==
    call.op = "gossip" =>
        /\ call.result # "panic"
        /\ \A i \in DOMAIN call.sends :
            /\ Len(bytes(call.sends[i].message)) = WireSize(call.sends[i].message)
            /\ Len(bytes(call.sends[i].message)) <= Capacity

\* the size formula itself is right for every List gossip returns
C14_SizeFormula ==
    call.op = "gossip" =>
        \A i \in DOMAIN call.sends :
            Len(bytes(call.sends[i].message)) = WireSize(call.sends[i].message)

\* with one fresh peer fewer than MaxFresh every payload fits
C14_FitsBelow ==
    call.op = "gossip" /\ Len(peers) < MaxFresh => call.result # "panic"

\* ------------------------------------------------------------------ C15
\* C15: for every Message that fits the capacity ceiling (any Ping, the empty
\* List, a List with the most entries that fit), parse(bytes(m)) returns a
\* Message equal to m: kind, entry count, order, host, port and beat of every
\* entry.
C15_RoundTrip ==
    call.op = "parse" /\ call.damage = "intact" =>
        /\ call.buf = bytes(call.message)
        /\ call.result = "Some"
        /\ call.out.kind = call.message.kind
        /\ Len(call.out.list) = Len(call.message.list)
        /\ \A k \in DOMAIN call.message.list :
            /\ call.out.list[k].addr.host = call.message.list[k].addr.host
            /\ call.out.list[k].addr.port = call.message.list[k].addr.port
            /\ call.out.list[k].beat = call.message.list[k].beat

\* a List of the most entries that fit, with fields of several bytes, came back
C15_Witness ==
    /\ call.op = "parse" /\ call.damage = "intact"
    /\ call.message.kind = "List"
    /\ Len(call.message.list) > 0
    /\ call.message.list[1].addr.port > 255
    /\ WireSize(call.message) < Capacity
    /\ WireSize(call.message) + InfoBytes >= Capacity
    /\ call.out = call.message

\* a Ping with every field at its largest came back
C15_WitnessPing ==
    /\ call.op = "parse" /\ call.damage = "intact"
    /\ call.message = Ping(Info([host |-> 2130706433, port |-> 65535], 2147483647))
    /\ call.out = call.message

\* ------------------------------------------------------------------ C16
\* C16: parse never terminates the process: for the empty buffer, an unknown
\* kind tag, a Ping shorter than 15 bytes and a List announcing more records
\* than the buffer holds it returns a failure result, no Message.
C16_ParseNeverAborts ==
    call.op = "parse" =>
        /\ call.result # "panic"
        /\ call.damage # "intact" => call.result = "None"

\* an unknown kind tag is a failure result
C16_UnknownTagIsNone ==
    call.op = "parse" /\ call.damage = "tag" => call.result = "None"

\* a buffer cut short never yields a failure result
C16_ShortAlwaysAborts ==
    call.op = "parse" /\ call.damage \in {"short", "count"} => call.result # "None"

\* ------------------------------------------------------------------ C17
\* C17: bytes(m) of a List whose encoded size exceeds the capacity ceiling
\* fails with an error result: no partial byte sequence, the process goes on.
C17_OverCapacityIsError ==
    call.op = "bytes" /\ WireSize(call.message) > Capacity /\ call.message.kind = "List" =>
        /\ call.result = "Err"
        /\ call.buf = <<>>
        /\ status = "running"

\* over capacity nothing is returned, truncated or not
C17_NeverTruncates ==
    call.op = "bytes" /\ call.result = "Vec" => call.buf = bytes(call.message)

\* ------------------------------------------------------------------ C18
\* C18: for both message kinds patch(observed) replaces the host of an Info
\* only when that host is 0, with the observed sender's host; a non-zero host
\* is kept, and port and beat are never changed.
C18_PatchFillsSentinelOnly ==
    call.op = "patch" =>
        /\ call.out.kind = call.message.kind
        /\ Len(call.out.list) = Len(call.message.list)
        /\ \A k \in DOMAIN call.message.list :
            LET before == call.message.list[k]
                after == call.out.list[k]
            IN /\ after.addr.port = before.addr.port
               /\ after.beat = before.beat
               /\ after.addr.host = IF before.addr.host = 0 THEN call.ip.host
                                    ELSE before.addr.host

\* the same of Lists only
C18_ListFillsSentinelOnly ==
    call.op = "patch" /\ call.message.kind = "List" =>
        \A k \in DOMAIN call.message.list :
            LET before == call.message.list[k]
                after == call.out.list[k]
            IN /\ after.addr.port = before.addr.port
               /\ after.beat = before.beat
               /\ after.addr.host = IF before.addr.host = 0 THEN call.ip.host
                                    ELSE before.addr.host

\* port and beat of a Ping are kept, its host is the sender's whatever it was
C18_PingTakesSender ==
    call.op = "patch" /\ call.message.kind = "Ping" =>
        /\ call.out.list[1].addr.port = call.message.list[1].addr.port
        /\ call.out.list[1].beat = call.message.list[1].beat
        /\ call.out.list[1].addr.host = call.ip.host

====
